---- MODULE Spec2Model ----
(***************************************************************************)
(* Route finder demo (React + @vis.gl/react-google-maps).                  *)
(*                                                                         *)
(* The model follows the components of the widget:                         *)
(*   App         owns the committed (origin, destination) pair             *)
(*   ControlPane owns the draft pair (inputOrigin, inputDestination)       *)
(*   Directions  owns routes and routeIndex, and drives the                *)
(*               DirectionsService / DirectionsRenderer                    *)
(*                                                                         *)
(* One action is one browser event (library load, input event, click,      *)
(* promise settlement, overlay drag, unmount) together with the React      *)
(* re-render and every effect that re-render triggers.  State updates made *)
(* inside one event handler are batched into one re-render (createRoot).   *)
(* JavaScript indices are 0-based; TLA+ sequences are 1-based, so          *)
(* routes[routeIndex] of the source is routes[routeIndex + 1] here.        *)
(***************************************************************************)
EXTENDS Integers, Sequences, FiniteSets, TLC

\* ------------------------------------------------------------------ bounds
MaxRoutes == 2      \* most alternatives in one DirectionsResult
MaxRequests == 2    \* most routing requests issued in one run
MaxAddrLen == 2     \* longest leg address of the render specification

\* ------------------------------------------------------------------ values
Null == "null"                 \* JavaScript null / undefined
Locations == {"A", "B"}        \* the address strings a user can enter

\* JavaScript truthiness of a string-or-null value: !x is true for null and ""
Present(x) == x # Null /\ x # ""

\* The leg address the routing service reports for a location: a string as a
\* sequence of characters ("A" has a comma-delimited address, "B" has not).
AddressOf(loc) == IF loc = "A" THEN <<"a", ",", "x">> ELSE <<"b">>

\* The summary label of alternative k of an answer
SummaryOf(k) == "via " \o ToString(k)

\* Alternative k of the service's answer to the request (o, d)
Route(o, d, k) ==
  [summary |-> SummaryOf(k),
   legs |-> << [start_address |-> AddressOf(o),
                end_address |-> AddressOf(d),
                distance |-> [text |-> "km"],
                duration |-> [text |-> "min"]] >>]

\* response.routes of a resolved request (o, d) with n alternatives
ResponseRoutes(o, d, n) == [k \in 1..n |-> Route(o, d, k)]

\* The routes arrays the renderer can hold after the user dragged the route
\* of current: a re-routing between the same endpoints, of any length
DragResults(current) ==
  IF current = <<>> THEN {}
  ELSE {[k \in 1..n |-> [current[1] EXCEPT !.summary = SummaryOf(k)]] : n \in 1..MaxRoutes}

\* ------------------------------------------------------------------ state
VARIABLES
  variant,              \* "autocomplete" (AutocompleteInput) or "plain" (<input onChange>)
  map,                  \* useMap() is non-null
  routesLibrary,        \* useMapsLibrary('routes') is non-null
  placesLibrary,        \* useMapsLibrary('places') is non-null
  directionsService,    \* Directions state: the service exists
  directionsRenderer,   \* Directions state: the renderer exists
  routes,               \* Directions state
  routeIndex,           \* Directions state (0-based)
  inputOrigin,          \* ControlPane draft
  inputDestination,     \* ControlPane draft
  origin,               \* App committed
  destination,          \* App committed
  rendererMap,          \* the renderer is attached to the map
  rendererDirections,   \* routes of the renderer's directions, <<>> when none
  rendererRouteIndex,   \* the renderer's routeIndex
  listener,             \* the 'directions_changed' listener is registered
  placeListeners,       \* number of 'place_changed' listeners registered
  fetchCleanup,         \* the last run of the route-fetch effect returned its cleanup
  pending,              \* routing requests in flight, in issue order
  issued,               \* number of routing requests issued so far
  mounted,              \* Directions is mounted
  view,                 \* what Directions renders
  lastEvent             \* the event handled last

vars == <<variant, map, routesLibrary, placesLibrary, directionsService,
          directionsRenderer, routes, routeIndex, inputOrigin, inputDestination,
          origin, destination, rendererMap, rendererDirections,
          rendererRouteIndex, listener, placeListeners, fetchCleanup, pending,
          issued, mounted, view, lastEvent>>

controlVars == <<inputOrigin, inputDestination>>
appVars == <<origin, destination>>
libVars == <<map, routesLibrary, placesLibrary>>

\* ------------------------------------------------------------------ render
\* s.split(',')[0]: the characters before the first comma
\* Variant: no truncation
SplitFirst_Whole(s) == s

RECURSIVE SplitFirst(_)
SplitFirst(s) ==
  IF s = <<>> \/ Head(s) = "," THEN <<>>
  ELSE <<Head(s)>> \o SplitFirst(Tail(s))

\* routes[routeIndex] is defined
HasSelected(rs, idx) == idx + 1 \in DOMAIN rs

\* selected?.legs[0] is defined
HasLeg(rs, idx) == HasSelected(rs, idx) /\ rs[idx + 1].legs # <<>>

\* The JSX returned by Directions: nothing (null) without a leg, otherwise the
\* details of the selected alternative and one button per alternative
Nothing == [shown |-> FALSE]
Render(rs, idx) ==
  IF ~HasLeg(rs, idx) THEN Nothing
  ELSE LET selected == rs[idx + 1]
           leg == selected.legs[1]
       IN [shown |-> TRUE,
           summary |-> selected.summary,
           start |-> SplitFirst(leg.start_address),
           end |-> SplitFirst(leg.end_address),
           distance |-> leg.distance.text,
           duration |-> leg.duration.text,
           buttons |-> [k \in DOMAIN rs |-> rs[k].summary]]

Rerender == view' = IF mounted' THEN Render(routes', routeIndex') ELSE Nothing

\* ------------------------------------------------------------------ effects
\* React re-runs an effect when some dependency differs (Object.is) from the
\* previous render; strings compare by value.
\* Variant: every re-render re-runs the effect
DepsChanged_Always(prev, next) == TRUE
DepsChanged(prev, next) == prev # next

\* The dependency lists of the four effects
InitDeps(lib, m) == <<lib, m>>
ListenerDeps(rnd) == <<rnd>>
\* Variant: the route-fetch effect depends on the committed pair only
FetchDeps_PairOnly(svc, rnd, o, d) == <<o, d>>

FetchDeps(svc, rnd, o, d) == <<svc, rnd, o, d>>
\* Variant: the route-index effect depends on the renderer only
IndexDeps_RendererOnly(idx, rnd) == <<rnd>>
IndexDeps(idx, rnd) == <<idx, rnd>>

\* line 65 negated: the route-fetch effect goes on to issue a request
\* Variant: the guard forgets the destination
FetchGuard_NoDestination(svc, rnd, o, d) == svc /\ rnd /\ Present(o)
FetchGuard(svc, rnd, o, d) == svc /\ rnd /\ Present(o) /\ Present(d)

\* The request passed to directionsService.route
Request(o, d) ==
  [origin |-> o, destination |-> d, travelMode |-> "DRIVING",
   provideRouteAlternatives |-> TRUE]

\* directionsService.route(request): the requests in flight afterwards
\* Variant: a new request replaces the ones in flight
IssueRequest_Superseding(inFlight, request) == <<request>>

IssueRequest(inFlight, request) == Append(inFlight, request)

\* The renderer's attachment after the cleanup of the route-fetch effect
\* Variant: the cleanup leaves the renderer attached
FetchCleanup_Noop(hasCleanup, attached) == attached
\* Variant: the cleanup detaches only a renderer that was never used
FetchCleanup_Inverted(hasCleanup, attached) == IF hasCleanup THEN attached ELSE FALSE
FetchCleanup(hasCleanup, attached) == IF hasCleanup THEN FALSE ELSE attached

\* The listener registration after the cleanup of the listener effect
ListenerCleanup(hasRenderer, registered) == IF hasRenderer THEN FALSE ELSE registered

\* The route-fetch effect after a re-render; attached is whether the renderer
\* was attached before the effect (and its cleanup) ran.
FetchEffect(attached) ==
  IF ~DepsChanged(FetchDeps(directionsService, directionsRenderer, origin, destination),
                  FetchDeps(directionsService', directionsRenderer', origin', destination'))
  THEN /\ rendererMap' = attached
       /\ UNCHANGED <<pending, issued, fetchCleanup>>
  ELSE LET afterCleanup == FetchCleanup(fetchCleanup, attached)
       IN IF FetchGuard(directionsService', directionsRenderer', origin', destination')
          THEN /\ rendererMap' = TRUE
               /\ pending' = IssueRequest(pending, Request(origin', destination'))
               /\ issued' = issued + 1
               /\ fetchCleanup' = TRUE
          ELSE /\ rendererMap' = afterCleanup
               /\ fetchCleanup' = FALSE
               /\ UNCHANGED <<pending, issued>>

\* The route-index effect after a re-render
IndexEffect ==
  rendererRouteIndex' =
    IF directionsRenderer' /\ DepsChanged(IndexDeps(routeIndex, directionsRenderer),
                                      IndexDeps(routeIndex', directionsRenderer'))
    THEN routeIndex' ELSE rendererRouteIndex

\* The listener effect after a re-render
ListenerEffect ==
  listener' =
    IF ~DepsChanged(ListenerDeps(directionsRenderer), ListenerDeps(directionsRenderer')) THEN listener
    ELSE IF directionsRenderer' THEN TRUE
    ELSE ListenerCleanup(directionsRenderer, listener)

\* The init effect: creates service and renderer once both map and library exist
InitEffect ==
  IF DepsChanged(InitDeps(routesLibrary, map), InitDeps(routesLibrary', map')) /\ routesLibrary' /\ map'
  THEN /\ directionsService' = TRUE
       /\ directionsRenderer' = TRUE
       /\ FetchEffect(TRUE)
  ELSE /\ UNCHANGED <<directionsService, directionsRenderer>>
       /\ FetchEffect(rendererMap)

\* ------------------------------------------------------------------ init
Init ==
  /\ variant \in {"autocomplete", "plain"}
  /\ map = FALSE /\ routesLibrary = FALSE /\ placesLibrary = FALSE
  /\ directionsService = FALSE /\ directionsRenderer = FALSE
  /\ routes = <<>> /\ routeIndex = 0
  /\ inputOrigin = Null /\ inputDestination = Null
  /\ origin = Null /\ destination = Null
  /\ rendererMap = FALSE /\ rendererDirections = <<>> /\ rendererRouteIndex = 0
  /\ listener = FALSE /\ placeListeners = 0 /\ fetchCleanup = FALSE
  /\ pending = <<>> /\ issued = 0
  /\ mounted = TRUE
  /\ view = Nothing
  /\ lastEvent = [op |-> "mount"]

\* ------------------------------------------------------------------ actions
\* useMap() starts returning the map instance
MapLoaded ==
  /\ mounted /\ ~map
  /\ map' = TRUE
  /\ UNCHANGED <<routesLibrary, placesLibrary>>
  /\ UNCHANGED <<variant, placeListeners, routes, routeIndex, controlVars, appVars, rendererDirections, mounted>>
  /\ InitEffect /\ ListenerEffect /\ IndexEffect
  /\ Rerender
  /\ lastEvent' = [op |-> "mapLoaded"]

\* useMapsLibrary('routes') starts returning the library
RoutesLibraryLoaded ==
  /\ mounted /\ ~routesLibrary
  /\ routesLibrary' = TRUE
  /\ UNCHANGED <<map, placesLibrary>>
  /\ UNCHANGED <<variant, placeListeners, routes, routeIndex, controlVars, appVars, rendererDirections, mounted>>
  /\ InitEffect /\ ListenerEffect /\ IndexEffect
  /\ Rerender
  /\ lastEvent' = [op |-> "routesLibraryLoaded"]

\* The 'place_changed' listeners after the effect of the two AutocompleteInput
\* components ran: each adds one listener once the library is there
AutocompleteEffect(registered, lib) == IF lib THEN registered + 2 ELSE registered

\* The 'place_changed' listeners after the two AutocompleteInput components
\* unmounted: their effect returns no cleanup
AutocompleteCleanup(registered) == registered

\* useMapsLibrary('places') starts returning the library; the effect of each
\* AutocompleteInput then creates its Autocomplete and adds 'place_changed'
PlacesLibraryLoaded ==
  /\ mounted /\ variant = "autocomplete" /\ ~placesLibrary
  /\ placesLibrary' = TRUE
  /\ placeListeners' = AutocompleteEffect(placeListeners, placesLibrary')
  /\ UNCHANGED <<map, routesLibrary>>
  /\ UNCHANGED <<variant, routes, routeIndex, controlVars, appVars, rendererDirections, mounted>>
  /\ InitEffect /\ ListenerEffect /\ IndexEffect
  /\ Rerender
  /\ lastEvent' = [op |-> "placesLibraryLoaded"]

\* What autocomplete.getPlace() can return
Places ==
  {[exists |-> FALSE, formatted_address |-> Null]} \cup
  {[exists |-> TRUE, formatted_address |-> a] : a \in Locations \cup {Null, ""}}

\* The value a 'place_changed' handler leaves in its draft
\* Variant: the handler reports the address without checking it
PlaceSelected_Unchecked(draft, place) == place.formatted_address
PlaceSelected(draft, place) ==
  IF place.exists /\ Present(place.formatted_address)
  THEN place.formatted_address ELSE draft

\* AutocompleteInput: a 'place_changed' event on the origin or destination field
PlaceChanged(field, place) ==
  /\ mounted /\ variant = "autocomplete" /\ placesLibrary
  /\ IF field = "origin"
     THEN inputOrigin' = PlaceSelected(inputOrigin, place) /\ UNCHANGED inputDestination
     ELSE inputDestination' = PlaceSelected(inputDestination, place) /\ UNCHANGED inputOrigin
  /\ UNCHANGED <<variant, placeListeners, libVars, directionsService, directionsRenderer, routes,
                 routeIndex, appVars, rendererMap, rendererDirections,
                 rendererRouteIndex, listener, fetchCleanup, pending, issued,
                 mounted, view>>
  /\ lastEvent' = [op |-> "placeChanged", field |-> field, place |-> place]

\* AutocompleteInput: the user types in a field without picking a suggestion;
\* the input is uncontrolled and has no onChange
TypeText(field) ==
  /\ mounted /\ variant = "autocomplete"
  /\ UNCHANGED <<variant, placeListeners, libVars, directionsService, directionsRenderer,
                 routes, routeIndex, controlVars, appVars, rendererMap,
                 rendererDirections, rendererRouteIndex, listener, fetchCleanup,
                 pending, issued, mounted, view>>
  /\ lastEvent' = [op |-> "typeText", field |-> field]

\* Plain-input variant: onChange of the origin or destination field
OnChange(field, value) ==
  /\ mounted /\ variant = "plain"
  /\ IF field = "origin"
     THEN inputOrigin' = value /\ UNCHANGED inputDestination
     ELSE inputDestination' = value /\ UNCHANGED inputOrigin
  /\ UNCHANGED <<variant, placeListeners, libVars, directionsService, directionsRenderer, routes,
                 routeIndex, appVars, rendererMap, rendererDirections,
                 rendererRouteIndex, listener, fetchCleanup, pending, issued,
                 mounted, view>>
  /\ lastEvent' = [op |-> "onChange", field |-> field]

\* The committed pair after the Find Route handler ran on the drafts
\* Variant: the handler passes the origin draft to both setters
Committed_OriginTwice(draftOrigin, draftDestination) == <<draftOrigin, draftOrigin>>
Committed(draftOrigin, draftDestination) == <<draftOrigin, draftDestination>>

\* ControlPane: click on Find Route
FindRoute ==
  /\ mounted /\ issued < MaxRequests
  /\ origin' = Committed(inputOrigin, inputDestination)[1]
  /\ destination' = Committed(inputOrigin, inputDestination)[2]
  /\ UNCHANGED <<variant, placeListeners, libVars, routes, routeIndex, controlVars, rendererDirections, mounted>>
  /\ InitEffect /\ ListenerEffect /\ IndexEffect
  /\ Rerender
  /\ lastEvent' = [op |-> "findRoute", previous |-> <<origin, destination>>]

\* s without its i-th element
RemoveAt(s, i) == [k \in 1..(Len(s) - 1) |-> IF k < i THEN s[k] ELSE s[k + 1]]

\* The state left by the .then handler: <<routes, routeIndex>>
\* Variant: the handler does not reset the index
ThenHandler_KeepIndex(rs, idx, response) == <<response, idx>>
\* Variant: the handler adds the response to the routes it has
ThenHandler_Append(rs, idx, response) == <<rs \o response, 0>>
ThenHandler(rs, idx, response) == <<response, 0>>

\* The state left by the 'directions_changed' listener
\* Variant: the listener drops the notification
DirectionsChanged_Ignore(rs, result) == rs
DirectionsChanged(rs, result) == IF result # <<>> THEN result ELSE rs

\* The i-th request in flight resolves with n alternatives
Resolve(i, n) ==
  /\ i \in 1..Len(pending) /\ n \in 1..MaxRoutes
  /\ LET response == ResponseRoutes(pending[i].origin, pending[i].destination, n)
         afterListener == IF listener THEN DirectionsChanged(routes, response) ELSE routes
     IN /\ rendererDirections' = response
        /\ routes' = IF mounted THEN ThenHandler(afterListener, routeIndex, response)[1]
                     ELSE afterListener
        /\ routeIndex' = IF mounted THEN ThenHandler(afterListener, routeIndex, response)[2]
                         ELSE routeIndex
        /\ lastEvent' = [op |-> "resolve", request |-> pending[i], response |-> response,
                         indexBefore |-> routeIndex]
  /\ pending' = RemoveAt(pending, i)
  /\ UNCHANGED <<variant, placeListeners, libVars, directionsService, directionsRenderer, controlVars,
                 appVars, rendererMap, listener, fetchCleanup, issued, mounted>>
  /\ IndexEffect
  /\ Rerender

\* The state <<routes, routeIndex>> left by a rejection: route().then has no
\* second argument and no .catch, so nothing of Directions runs
\* Variant: a rejection handler that clears the route set
OnRejected_Clear(rs, idx) == <<(<<>>), 0>>
OnRejected(rs, idx) == <<rs, idx>>

\* The i-th request in flight rejects
Reject(i) ==
  /\ i \in 1..Len(pending)
  /\ pending' = RemoveAt(pending, i)
  /\ routes' = IF mounted THEN OnRejected(routes, routeIndex)[1] ELSE routes
  /\ routeIndex' = IF mounted THEN OnRejected(routes, routeIndex)[2] ELSE routeIndex
  /\ UNCHANGED <<variant, placeListeners, libVars, directionsService, directionsRenderer,
                 controlVars, appVars, rendererMap, rendererDirections,
                 listener, fetchCleanup, issued, mounted>>
  /\ IndexEffect
  /\ Rerender
  /\ lastEvent' = [op |-> "reject", request |-> pending[i]]

\* The routeIndex left by a click on the button of alternative index
\* Variant: the button passes a 1-based position
SelectIndex_OneBased(idx, index) == index + 1
SelectIndex(idx, index) == index

\* Directions: click on the button of alternative index (0-based)
SelectRoute(index) ==
  /\ mounted /\ view.shown /\ index + 1 \in DOMAIN routes
  /\ routeIndex' = SelectIndex(routeIndex, index)
  /\ UNCHANGED <<variant, placeListeners, libVars, routes, controlVars, appVars, rendererDirections, mounted>>
  /\ InitEffect /\ ListenerEffect /\ IndexEffect
  /\ Rerender
  /\ lastEvent' = [op |-> "selectRoute", index |-> index]

\* The user drags the displayed route: the renderer replaces its directions
\* by a result of n routes and notifies 'directions_changed'
DragRoute(result) ==
  /\ rendererMap /\ rendererDirections # <<>>
  /\ result \in DragResults(rendererDirections)
  /\ rendererDirections' = result
  /\ routes' = IF listener THEN DirectionsChanged(routes, result) ELSE routes
  /\ UNCHANGED <<variant, placeListeners, libVars, routeIndex, controlVars, appVars, mounted>>
  /\ InitEffect /\ ListenerEffect /\ IndexEffect
  /\ Rerender
  /\ lastEvent' = [op |-> "dragRoute"]

\* Directions unmounts: every effect's cleanup runs
Unmount ==
  /\ mounted
  /\ mounted' = FALSE
  /\ listener' = ListenerCleanup(directionsRenderer, listener)
  /\ rendererMap' = FetchCleanup(fetchCleanup, rendererMap)
  /\ fetchCleanup' = FALSE
  /\ placeListeners' = AutocompleteCleanup(placeListeners)
  /\ UNCHANGED <<variant, libVars, directionsService, directionsRenderer, routes,
                 routeIndex, controlVars, appVars, rendererDirections,
                 rendererRouteIndex, pending, issued>>
  /\ Rerender
  /\ lastEvent' = [op |-> "unmount"]

Next ==
  \/ MapLoaded
  \/ RoutesLibraryLoaded
  \/ PlacesLibraryLoaded
  \/ \E field \in {"origin", "destination"}, place \in Places : PlaceChanged(field, place)
  \/ \E field \in {"origin", "destination"} : TypeText(field)
  \/ \E field \in {"origin", "destination"}, value \in Locations \cup {""} : OnChange(field, value)
  \/ FindRoute
  \/ \E i \in 1..MaxRequests, n \in 1..MaxRoutes : Resolve(i, n)
  \/ \E i \in 1..MaxRequests : Reject(i)
  \/ \E index \in 0..(MaxRoutes - 1) : SelectRoute(index)
  \/ \E result \in DragResults(rendererDirections) : DragRoute(result)
  \/ Unmount

Spec == Init /\ [][Next]_vars

\* ------------------------------------------------------- render specification
\* The render function of Directions applied to arbitrary routes and routeIndex
Chars == {"a", ","}
Addresses == UNION {[1..n -> Chars] : n \in 0..MaxAddrLen}

\* The routes render may read as routes[routeIndex]: without legs, or with one leg
RenderRoutes ==
  {[summary |-> s, legs |-> <<>>] : s \in {"north", "south"}} \cup
  {[summary |-> s,
    legs |-> << [start_address |-> a, end_address |-> b,
                 distance |-> [text |-> dist], duration |-> [text |-> "min"]] >>] :
     s \in {"north", "south"}, a \in Addresses, b \in Addresses, dist \in {"km", "mi"}}

InitRender ==
  /\ variant = "plain"
  /\ map = TRUE /\ routesLibrary = TRUE /\ placesLibrary = FALSE
  /\ directionsService = TRUE /\ directionsRenderer = TRUE
  /\ \E n \in 0..MaxRoutes, idx \in 0..MaxRoutes, r \in RenderRoutes :
       /\ routes = [k \in 1..n |-> IF k = idx + 1 THEN r ELSE Route("A", "B", k)]
       /\ routeIndex = idx
  /\ inputOrigin = "A" /\ inputDestination = "B"
  /\ origin = "A" /\ destination = "B"
  /\ rendererMap = TRUE /\ rendererDirections = routes /\ rendererRouteIndex = routeIndex
  /\ listener = TRUE /\ placeListeners = 0 /\ fetchCleanup = TRUE
  /\ pending = <<>> /\ issued = 1
  /\ mounted = TRUE
  /\ view = Nothing
  /\ lastEvent = [op |-> "mount"]

\* Directions renders
RenderStep ==
  /\ lastEvent.op = "mount"
  /\ UNCHANGED <<variant, placeListeners, libVars, directionsService, directionsRenderer, routes,
                 routeIndex, controlVars, appVars, rendererMap, rendererDirections,
                 rendererRouteIndex, listener, fetchCleanup, pending, issued, mounted>>
  /\ Rerender
  /\ lastEvent' = [op |-> "render"]

NextRender == RenderStep

SpecRender == InitRender /\ [][NextRender]_vars

\* ------------------------------------------------------------------ claims
BothDraftsSet == Present(inputOrigin) /\ Present(inputDestination)
Ready == directionsService /\ directionsRenderer
BothCommitted == Present(origin) /\ Present(destination)

\* C1 (as stated): every Find Route click with both drafts set and service and
\* renderer ready issues exactly one routing request, also when the submitted
\* pair equals the committed pair.
C1_EverySubmissionFetches ==
  [][(lastEvent'.op = "findRoute" /\ BothDraftsSet /\ Ready)
       => (issued' = issued + 1 /\ Len(pending') = Len(pending) + 1)]_vars

\* C1 (amended): a Find Route click with both drafts set and service and
\* renderer ready issues exactly one routing request, for the submitted pair,
\* when the submitted pair differs from the committed pair, and issues none and
\* changes nothing of Directions when the pair equals the committed pair.
C1_SubmissionFetchesOnChange ==
  [][(lastEvent'.op = "findRoute" /\ BothDraftsSet /\ Ready)
       => IF <<inputOrigin, inputDestination>> # <<origin, destination>>
          THEN /\ issued' = issued + 1
               /\ pending' = Append(pending, Request(inputOrigin, inputDestination))
               /\ rendererMap'
          ELSE /\ UNCHANGED <<issued, pending, routes, routeIndex, rendererMap, view>>]_vars

\* C1 witness: a click that submitted the pair already committed, while ready
C1_Witness ==
  /\ lastEvent.op = "findRoute" /\ lastEvent.previous = <<origin, destination>>
  /\ BothCommitted /\ Ready /\ issued = 1

\* C2 (as stated): whenever routes is non-empty, 0 <= routeIndex < length(routes)
C2_IndexValid ==
  (mounted /\ routes # <<>>) => (0 <= routeIndex /\ routeIndex < Len(routes))

\* C3: right after the .then handler ran, routeIndex is 0 and below the length
\* of routes, whatever it was before.
C3_IndexResetOnResponse ==
  (mounted /\ lastEvent.op = "resolve")
    => (routeIndex = 0 /\ routeIndex < Len(routes))

\* C3 witness: a response applied while alternative 1 was selected
C3_Witness ==
  mounted /\ lastEvent.op = "resolve" /\ lastEvent.indexBefore = 1 /\ routeIndex = 0

\* C4: selecting alternative i sets routeIndex and the renderer's route index
\* to i and changes nothing else but the rendered details: no request, no
\* change of routes, of the committed pair or of the renderer's directions.
C4_SelectOnlyMovesIndex ==
  [][lastEvent'.op = "selectRoute"
       => /\ routeIndex' = lastEvent'.index
          /\ rendererRouteIndex' = lastEvent'.index
          /\ view' = Render(routes, lastEvent'.index)
          /\ UNCHANGED <<variant, placeListeners, libVars, directionsService, directionsRenderer,
                         routes, controlVars, appVars, rendererMap,
                         rendererDirections, listener, fetchCleanup, pending,
                         issued, mounted>>]_vars

\* C4 witness: alternative 1 was selected while alternative 0 was displayed
C4_Witness ==
  /\ lastEvent.op = "selectRoute" /\ lastEvent.index = 1
  /\ routeIndex = 1 /\ view.shown /\ view.summary = routes[2].summary

\* C5: while no request has been issued, a step that leaves a committed
\* location absent (a submission with an unset draft, or the session becoming
\* ready after one) issues no request and leaves Directions idle: no route,
\* nothing rendered, nothing in flight.
C5_AbsentLocationStaysIdle ==
  [][(issued = 0 /\ ~BothCommitted')
       => (issued' = 0 /\ pending' = <<>> /\ routes' = <<>> /\ view' = Nothing)]_vars

\* C5 witness: origin set and destination unset was submitted while ready
C5_Witness ==
  /\ lastEvent.op = "findRoute" /\ Present(origin) /\ ~Present(destination)
  /\ Ready /\ issued = 0

\* C6: a draft change leaves the committed pair, routes and the requests
\* alone; the committed pair changes only by Find Route, which copies both
\* drafts as they are.
C6_CommitOnlyOnSubmit ==
  [][/\ lastEvent'.op \in {"placeChanged", "onChange"}
          => UNCHANGED <<origin, destination, routes, routeIndex, pending, issued>>
     /\ <<origin, destination>>' # <<origin, destination>>
          => lastEvent'.op = "findRoute"
     /\ lastEvent'.op = "findRoute"
          => (origin' = inputOrigin /\ destination' = inputDestination)]_vars

\* C6 witness: a submission that committed a set origin and an unset destination
C6_Witness ==
  /\ lastEvent.op = "findRoute" /\ origin \in Locations /\ destination = Null
  /\ inputOrigin = origin /\ inputDestination = Null

\* C7: once Directions has unmounted with a route set displayed, the
\* 'directions_changed' listener is gone and the renderer is detached, and
\* they stay so.
C7_UnmountDetaches ==
  (~mounted /\ routes # <<>>) => (~listener /\ ~rendererMap)

\* C7 witness: unmounted while a route set was displayed, a late response applied
C7_Witness ==
  ~mounted /\ routes # <<>> /\ lastEvent.op = "resolve"

\* p is the first comma-delimited segment of s
IsFirstSegment(p, s) ==
  /\ Len(p) <= Len(s)
  /\ \A k \in 1..Len(p) : p[k] = s[k] /\ p[k] # ","
  /\ Len(p) = Len(s) \/ s[Len(p) + 1] = ","

\* C8: once rendered, the details shown for the selected alternative are its
\* summary, the first comma-delimited segment of the first leg's start and end
\* address (the whole address when it has no comma), and the leg's distance
\* and duration text; nothing is shown when routes[routeIndex] or its first
\* leg is absent.
C8_DisplayContract ==
  (mounted /\ lastEvent.op # "mount") =>
    IF routeIndex + 1 \in DOMAIN routes
    THEN LET selected == routes[routeIndex + 1]
         IN IF selected.legs = <<>> THEN ~view.shown
            ELSE /\ view.shown
                 /\ view.summary = selected.summary
                 /\ IsFirstSegment(view.start, selected.legs[1].start_address)
                 /\ IsFirstSegment(view.end, selected.legs[1].end_address)
                 /\ view.distance = selected.legs[1].distance.text
                 /\ view.duration = selected.legs[1].duration.text
    ELSE ~view.shown

\* C8 witness: an address with a comma is shown cut at the comma
C8_Witness ==
  /\ lastEvent.op = "render" /\ view.shown
  /\ routes[routeIndex + 1].legs[1].start_address = <<"a", ",">>
  /\ view.start = <<"a">>
  /\ routes[routeIndex + 1].legs[1].end_address = <<"a", "a">>
  /\ view.end = <<"a", "a">>

\* C9: a request in flight leaves only by settling (it is never cancelled by a
\* later submission), and the response that resolves last is the one displayed:
\* right after a response resolves, routes is that response's routes, whichever
\* pair is committed.
C9_LastResolvedWins ==
  /\ [][lastEvent'.op \notin {"resolve", "reject"}
          => (Len(pending') >= Len(pending)
              /\ SubSeq(pending', 1, Len(pending)) = pending)]_vars
  /\ [](mounted /\ lastEvent.op = "resolve"
          => (routes = lastEvent.response /\ rendererDirections = lastEvent.response))

\* C9 witness: two requests were issued, both have settled, and the routes
\* displayed are those of the request for the superseded pair
C9_Witness ==
  /\ mounted /\ issued = 2 /\ pending = <<>> /\ lastEvent.op = "resolve"
  /\ BothCommitted
  /\ lastEvent.request # Request(origin, destination)
  /\ routes = lastEvent.response
  /\ view.shown /\ view.start = SplitFirst(AddressOf(lastEvent.request.origin))

\* C10: a request is issued only in a step after which map, service, renderer
\* and both committed locations are present, one per step; the step in which
\* service and renderer appear with both locations already committed issues
\* exactly the request for the committed pair; and whenever all of them are
\* present a request has been issued.
C10_FetchWhenAllPresent ==
  /\ [][issued' # issued
          => (issued' = issued + 1 /\ map' /\ Ready' /\ BothCommitted' /\ mounted')]_vars
  /\ [][(~Ready /\ Ready' /\ BothCommitted')
          => (issued' = issued + 1
              /\ pending' = <<Request(origin', destination')>>
              /\ UNCHANGED <<origin, destination>>)]_vars
  /\ []((mounted /\ Ready /\ BothCommitted) => issued >= 1)

\* C10 witness: the pair was committed before the session was ready, and the
\* request went out when service and renderer appeared
C10_Witness ==
  /\ lastEvent.op \in {"mapLoaded", "routesLibraryLoaded"}
  /\ Ready /\ BothCommitted /\ issued = 1 /\ Len(pending) = 1

\* C11 (as stated): after the components unmounted, no 'directions_changed'
\* and no 'place_changed' listener is registered and the renderer is not
\* attached to the map, also when an effect had returned early.
C11_CleanupSymmetric ==
  ~mounted => (~listener /\ placeListeners = 0 /\ ~rendererMap)

\* C12: every request asks for driving mode with alternatives; right after a
\* request resolves the renderer holds the response, and routes is the
\* response's alternatives, as many and in the same order, none of the
\* previous route set remaining.
C12_ResponseReplacesRoutes ==
  /\ \A k \in 1..Len(pending) :
       pending[k].travelMode = "DRIVING" /\ pending[k].provideRouteAlternatives
  /\ lastEvent.op = "resolve" =>
       /\ lastEvent.request.travelMode = "DRIVING"
       /\ lastEvent.request.provideRouteAlternatives
       /\ rendererDirections = lastEvent.response
       /\ mounted =>
            /\ Len(routes) = Len(lastEvent.response)
            /\ \A k \in 1..Len(routes) :
                 /\ routes[k] = lastEvent.response[k]
                 /\ routes[k] = Route(lastEvent.request.origin,
                                      lastEvent.request.destination, k)

\* C12 witness: a response of one alternative replaced a route set in which
\* alternative 1 was selected
C12_Witness ==
  /\ mounted /\ lastEvent.op = "resolve" /\ lastEvent.indexBefore = 1
  /\ Len(lastEvent.response) = 1 /\ routes = lastEvent.response

\* C13: a submission that leaves a committed location absent after a request
\* was issued for the previous pair detaches the renderer and issues no
\* request, and the renderer stays detached while a location is absent, also
\* when an earlier request resolves.
C13_AbsentLocationDetaches ==
  /\ [][(fetchCleanup /\ lastEvent'.op = "findRoute" /\ ~BothCommitted')
          => (~rendererMap' /\ ~fetchCleanup' /\ UNCHANGED <<issued, pending>>)]_vars
  /\ []((mounted /\ issued >= 1 /\ ~BothCommitted) => ~rendererMap)

\* C13 witness: an empty destination was submitted while a request was in
\* flight, and that request has resolved since
C13_Witness ==
  /\ mounted /\ lastEvent.op = "resolve" /\ Present(origin) /\ destination = ""
  /\ ~rendererMap /\ rendererDirections # <<>>

\* C14: while Directions is mounted and has its renderer, the renderer's route
\* index is routeIndex.
C14_RendererIndexFollows ==
  (mounted /\ directionsRenderer) => rendererRouteIndex = routeIndex

\* C14 witness: a second response arrived while routeIndex was already 0
C14_Witness ==
  /\ mounted /\ lastEvent.op = "resolve" /\ lastEvent.indexBefore = 0
  /\ issued = 2 /\ pending = <<>> /\ rendererRouteIndex = 0
  /\ routes = lastEvent.response

\* C15: a drag of the route sets routes to the renderer's routes and issues no
\* request, and while Directions is mounted routes is what the renderer holds.
C15_RoutesFollowRenderer ==
  /\ [][(mounted /\ lastEvent'.op = "dragRoute")
          => (routes' = rendererDirections' /\ UNCHANGED <<issued, pending, routeIndex>>)]_vars
  /\ [](mounted => routes = rendererDirections)

\* C15 witness: a drag left two routes where the response had one
C15_Witness ==
  /\ mounted /\ lastEvent.op = "dragRoute" /\ issued = 1 /\ pending = <<>>
  /\ Len(routes) = 2 /\ routes = rendererDirections

\* C16: a rejected request leaves routes, routeIndex, the renderer and what is
\* rendered as they were, and leaves the requests in flight for good.
C16_RejectionChangesNothing ==
  [][lastEvent'.op = "reject"
       => /\ UNCHANGED <<routes, routeIndex, rendererDirections, rendererRouteIndex,
                         rendererMap, view, issued, origin, destination>>
          /\ Len(pending') = Len(pending) - 1
          /\ \E i \in 1..Len(pending) :
               pending[i] = lastEvent'.request /\ pending' = RemoveAt(pending, i)]_vars

\* C16 witness: a request was rejected while alternative 1 of an earlier
\* response was displayed
C16_Witness ==
  /\ mounted /\ lastEvent.op = "reject" /\ pending = <<>>
  /\ routeIndex = 1 /\ view.shown

\* C17: in the autocomplete variant a 'place_changed' event sets the draft of
\* its field to the place's formatted address when it has one and changes
\* nothing otherwise; typing changes no draft; so the drafts are always unset
\* or a selected address, and Find Route commits them.
C17_CallbackOnSelectionOnly ==
  /\ [][/\ lastEvent'.op = "placeChanged" =>
             LET place == lastEvent'.place
                 hasAddress == place.exists /\ place.formatted_address \in Locations
                 draft == IF lastEvent'.field = "origin" THEN inputOrigin ELSE inputDestination
                 after == IF lastEvent'.field = "origin" THEN inputOrigin' ELSE inputDestination'
                 other == IF lastEvent'.field = "origin" THEN inputDestination ELSE inputOrigin
                 otherAfter == IF lastEvent'.field = "origin" THEN inputDestination' ELSE inputOrigin'
             IN /\ after = IF hasAddress THEN place.formatted_address ELSE draft
                /\ otherAfter = other
                /\ UNCHANGED <<origin, destination, issued>>
        /\ lastEvent'.op = "typeText" =>
             UNCHANGED <<inputOrigin, inputDestination, origin, destination, issued>>
        /\ (variant = "autocomplete" /\ lastEvent'.op = "findRoute") =>
             (origin' = inputOrigin /\ destination' = inputDestination)]_vars
  /\ [](variant = "autocomplete" =>
          (inputOrigin \in Locations \cup {Null} /\ inputDestination \in Locations \cup {Null}))

\* C17 witness: a 'place_changed' without a formatted address left the origin
\* selected earlier in place
C17_Witness ==
  /\ lastEvent.op = "placeChanged" /\ lastEvent.field = "origin"
  /\ lastEvent.place.exists /\ lastEvent.place.formatted_address = Null
  /\ inputOrigin = "A"

\* C18 (as stated): whenever the route details are displayed, both committed
\* locations are present and the renderer is attached to the map.
C18_DetailsImplyCommitted ==
  (mounted /\ view.shown) => (BothCommitted /\ rendererMap)
====
